---- MODULE Spec2Model ----
(***************************************************************************)
(* Model of custom_components/import_statistics/prepare_data.py:           *)
(* prepare_data_to_import, handle_arguments, handle_dataframe and          *)
(* handle_dataframe_bdf.  One invocation is a walk of `pc` through the     *)
(* function bodies; loops advance one iteration per step.  The helpers     *)
(* module (handle_error, are_columns_valid, get_source,                    *)
(* add_unit_to_dataframe, get_sum_stat, get_mean_stat) is not part of the  *)
(* available sources and is modelled from the specification.               *)
(***************************************************************************)
EXTENDS Integers, Sequences, FiniteSets, TLC

VARIABLES
    file_exists,    \* os.path.exists(file_path)
    file_columns,   \* header of the file: set of column names
    file_rows,      \* data lines of the file: sequence of functions column -> cell text
    call_data,      \* call.data: a dict, modelled as a function with partial domain
    registry,       \* source-system unit registry: function statistic_id -> unit
    pc,             \* position of the invocation in the code
    opts,           \* locals of prepare_data_to_import returned by handle_arguments
    df,             \* the DataFrame currently being processed: [columns, rows]
    stats,          \* the accumulator dict of the running pipeline
    i,              \* number of loop iterations completed in the current loop
    outcome,        \* what the caller received
    caught,         \* the exception swallowed by the except clause ("none" if none)
    trace,          \* history: code regions entered by this invocation, in order
    run,            \* "first" or "second" invocation on the same inputs
    first_outcome   \* outcome of the first invocation (once the second has begun)

vars == <<file_exists, file_columns, file_rows, call_data, registry, pc, opts, df,
          stats, i, outcome, caught, trace, run, first_outcome>>

inputs == <<file_exists, file_columns, file_rows, call_data, registry>>

----------------------------------------------------------------------------
(* const.py *)

ATTR_TIMEZONE_IDENTIFIER == "timezone_identifier"
ATTR_DELIMITER == "delimiter"
ATTR_DECIMAL == "decimal"
ATTR_DATETIME_FORMAT == "datetime_format"
ATTR_UNIT_FROM_ENTITY == "unit_from_entity"
ATTR_STAT_ID_CONSUMPTION == "statistic_id_consumption"
ATTR_STAT_ID_SUPPLY == "statistic_id_supply"
ATTR_UNIT_CONSUMPTION == "unit_consumption"
ATTR_UNIT_SUPPLY == "unit_supply"

\* The three supplier headers, written here without their diacritics.
CSV_COL_DATETIME == "Datum a cas merania"
CSV_COL_CONSUMPTION == "1.5.0 - Cinny odber (kW)"
CSV_COL_SUPPLY == "2.5.0 - Cinna dodavka (kW)"

DATETIME_DEFAULT_FORMAT == "%d.%m.%Y %H:%M"

----------------------------------------------------------------------------
(* Bounds and input domains *)

MaxRows == 2

\* A statistic identifier "ns.name" is the pair <<ns, name>>.
DEFAULT_STAT_ID_CONSUMPTION == <<"sensor", "energy_consumption">>
DEFAULT_STAT_ID_SUPPLY == <<"sensor", "energy_supply">>

ISO_FORMAT == "%Y-%m-%d %H:%M"

BdfColumns == {CSV_COL_DATETIME, CSV_COL_CONSUMPTION, CSV_COL_SUPPLY}

\* Headers of the files fed to the program.
Layouts ==
    { BdfColumns,
      BdfColumns \cup {"note"},
      BdfColumns \cup {"statistic_id", "start", "sum"},
      {CSV_COL_DATETIME, CSV_COL_CONSUMPTION},
      {"statistic_id", "start", "sum", "unit"},
      {"statistic_id", "start", "mean"},
      {"statistic_id", "start", "mean", "sum"},
      {"statistic_id", "start"} }

\* Cell texts that may stand in a column.
CellDomain(c) ==
    CASE c = CSV_COL_DATETIME    -> {"01.01.2023 00:00", "2023-01-01 01:00"}
      [] c = CSV_COL_CONSUMPTION -> {"5", "x"}
      [] c = CSV_COL_SUPPLY      -> {"3"}
      [] c = "note"              -> {"n"}
      [] c = "statistic_id"      -> {<<"sensor", "a">>, <<"meter", "b">>}
      [] c = "start"             -> {"01.01.2023 00:00"}
      [] c = "sum"               -> {"7", "x"}
      [] c = "mean"              -> {"4"}
      [] c = "unit"              -> {"kWh", "W"}

RECURSIVE RowsOver(_)
RowsOver(cols) ==
    IF cols = {} THEN {<<>>}
    ELSE LET c == CHOOSE x \in cols : TRUE
         IN  {(c :> v) @@ r : v \in CellDomain(c), r \in RowsOver(cols \ {c})}

RECURSIVE SeqsUpTo(_, _)
SeqsUpTo(S, n) ==
    IF n = 0 THEN {<<>>}
    ELSE LET shorter == SeqsUpTo(S, n - 1)
         IN  shorter \cup {Append(s, x) : s \in {t \in shorter : Len(t) = n - 1}, x \in S}

\* Values a key of call.data may carry; the key may also be absent.
OptionDomain(k) ==
    CASE k = ATTR_TIMEZONE_IDENTIFIER -> {"Europe/Bratislava", "Not/AZone"}
      [] k = ATTR_DELIMITER           -> {","}
      [] k = ATTR_DATETIME_FORMAT     -> {ISO_FORMAT}
      [] k = ATTR_UNIT_FROM_ENTITY    -> {TRUE}
      [] k = ATTR_STAT_ID_SUPPLY      -> {DEFAULT_STAT_ID_CONSUMPTION}
      [] k = ATTR_UNIT_CONSUMPTION    -> {"kW"}

RequiredKeys == {ATTR_TIMEZONE_IDENTIFIER}
OptionalKeys == {ATTR_DELIMITER, ATTR_DATETIME_FORMAT, ATTR_UNIT_FROM_ENTITY,
                 ATTR_STAT_ID_SUPPLY, ATTR_UNIT_CONSUMPTION}

RECURSIVE DictsOver(_)
DictsOver(keys) ==
    IF keys = {} THEN {<<>>}
    ELSE LET k == CHOOSE x \in keys : TRUE
             rest == DictsOver(keys \ {k})
         IN  {(k :> v) @@ d : v \in OptionDomain(k), d \in rest}
             \cup (IF k \in RequiredKeys THEN {} ELSE rest)

\* States of the source-system registry: one that knows the unit of some
\* identifiers only, one that knows them all.
Registries ==
    { (DEFAULT_STAT_ID_CONSUMPTION :> "kWh") @@ (<<"sensor", "a">> :> "kWh"),
      (DEFAULT_STAT_ID_CONSUMPTION :> "kWh") @@ (DEFAULT_STAT_ID_SUPPLY :> "kWh")
          @@ (<<"sensor", "a">> :> "kWh") @@ (<<"meter", "b">> :> "W") }

ValidTimezones == {"Europe/Bratislava"}

\* The separator the files are written with.
FILE_SEP == ";"

----------------------------------------------------------------------------
(* Values *)

Ok(v) == [ok |-> TRUE, val |-> v, err |-> "none"]
Err(kind) == [ok |-> FALSE, val |-> "none", err |-> kind]

\* dict.get(key, default)
Get(d, k, default) == IF k \in DOMAIN d THEN d[k] ELSE default

NoOutcome == [kind |-> "none", error |-> "none", stats |-> <<>>, unit_from |-> "none"]
Returned(s, u) == [kind |-> "returned", error |-> "none", stats |-> s, unit_from |-> u]
Raised(e) == [kind |-> "raised", error |-> e, stats |-> <<>>, unit_from |-> "none"]

NoOpts == [decimal |-> "unset", timezone_identifier |-> "unset", delimiter |-> "unset",
           datetime_format |-> "unset", unit_from_entity |-> "unset"]

NoFrame == [columns |-> {}, rows |-> <<>>]

----------------------------------------------------------------------------
(* helpers (modelled from the specification) *)

\* Signals the failure: the caller of handle_error does not continue.
handle_error(kind) == Err(kind)

\* The namespace segment of the identifier: the portion before its first separator.
get_source(statistic_id) == statistic_id[1]

\* Unit from the source-system registry, or the hint verbatim.
add_unit_to_dataframe(source, unit_from_where, unit_from_row, statistic_id) ==
    IF unit_from_where = "ENTITY"
    THEN IF statistic_id \in DOMAIN registry
         THEN Ok(registry[statistic_id])
         ELSE handle_error("UnresolvableUnit")
    ELSE Ok(unit_from_row)

\* The format a timestamp text is written in, and the wall-clock hour it names.
TextFormat(text) ==
    CASE text = "01.01.2023 00:00" -> DATETIME_DEFAULT_FORMAT
      [] text = "2023-01-01 01:00" -> ISO_FORMAT
      [] OTHER -> "no format"

TextHour(text) ==
    CASE text = "01.01.2023 00:00" -> 0
      [] text = "2023-01-01 01:00" -> 1
      [] OTHER -> 0

\* Strict parse against the format, then the zone is attached as civil-time zone.
ParseTimestamp(text, tz, datetime_format) ==
    IF TextFormat(text) = datetime_format
    THEN Ok([hour |-> TextHour(text), tzinfo |-> tz])
    ELSE Err("MalformedTimestamp")

ParseNumber(text) ==
    CASE text = "3" -> Ok(3)
      [] text = "4" -> Ok(4)
      [] text = "5" -> Ok(5)
      [] text = "7" -> Ok(7)
      [] OTHER -> Err("MalformedNumber")

get_sum_stat(row, tz, datetime_format) ==
    LET t == ParseTimestamp(row["start"], tz, datetime_format)
        n == ParseNumber(row["sum"])
    IN  IF ~t.ok THEN t
        ELSE IF ~n.ok THEN n
        ELSE Ok([start |-> t.val, sum |-> n.val])

get_mean_stat(row, tz, datetime_format) ==
    LET t == ParseTimestamp(row["start"], tz, datetime_format)
        n == ParseNumber(row["mean"])
    IN  IF ~t.ok THEN t
        ELSE IF ~n.ok THEN n
        ELSE Ok([start |-> t.val, mean |-> n.val])

\* The generic layout requires a statistic_id column and a start column.
are_columns_valid(frame, unit_from_where) ==
    IF {"statistic_id", "start"} \subseteq frame.columns
    THEN Ok(TRUE)
    ELSE handle_error("InvalidColumns")

----------------------------------------------------------------------------
(* pandas *)

\* pd.read_csv(file_path, sep=..., decimal=..., engine="python"): with another
\* separator than the file's, every line is one field.
read_csv(sep) ==
    IF sep = FILE_SEP
    THEN [columns |-> file_columns, rows |-> file_rows]
    ELSE [columns |-> {"header line"},
          rows |-> [k \in 1..Len(file_rows) |-> ("header line" :> "data line")]]

\* usecols=[...] followed by .rename(columns={...})
RenameMap ==
    ("start" :> CSV_COL_DATETIME) @@ ("consumption" :> CSV_COL_CONSUMPTION)
        @@ ("supply" :> CSV_COL_SUPPLY)

read_csv_usecols(sep) ==
    LET table == read_csv(sep)
    IN  IF BdfColumns \subseteq table.columns
        THEN Ok([columns |-> DOMAIN RenameMap,
                 rows |-> [k \in 1..Len(table.rows) |->
                              [c \in DOMAIN RenameMap |-> table.rows[k][RenameMap[c]]]]])
        ELSE Err("SchemaMismatch")

----------------------------------------------------------------------------
(* prepare_data.py *)

\* Variant of handle_arguments that validates the timezone before the path.
handle_arguments_timezone_first(exists, data) ==
    IF Get(data, ATTR_TIMEZONE_IDENTIFIER, "None") \notin ValidTimezones
    THEN handle_error("InvalidTimezone")
    ELSE IF ~exists THEN handle_error("FileNotFound")
    ELSE Ok([decimal |-> IF Get(data, ATTR_DECIMAL, TRUE) THEN "," ELSE ".",
             timezone_identifier |-> Get(data, ATTR_TIMEZONE_IDENTIFIER, "None"),
             delimiter |-> Get(data, ATTR_DELIMITER, "None"),
             datetime_format |-> Get(data, ATTR_DATETIME_FORMAT, DATETIME_DEFAULT_FORMAT),
             unit_from_entity |-> IF Get(data, ATTR_UNIT_FROM_ENTITY, FALSE) = TRUE
                                  THEN "ENTITY" ELSE "TABLE"])

handle_arguments(exists, data) ==
    LET decimal == IF Get(data, ATTR_DECIMAL, TRUE) THEN "," ELSE "."
        datetime_format == Get(data, ATTR_DATETIME_FORMAT, DATETIME_DEFAULT_FORMAT)
        unit_from_entity == IF Get(data, ATTR_UNIT_FROM_ENTITY, FALSE) = TRUE
                            THEN "ENTITY" ELSE "TABLE"
        delimiter == Get(data, ATTR_DELIMITER, "None")
        timezone_identifier == Get(data, ATTR_TIMEZONE_IDENTIFIER, "None")
    IN  IF ~exists THEN handle_error("FileNotFound")
        ELSE IF timezone_identifier \notin ValidTimezones
        THEN handle_error("InvalidTimezone")
        ELSE Ok([decimal |-> decimal,
                 timezone_identifier |-> timezone_identifier,
                 delimiter |-> delimiter,
                 datetime_format |-> datetime_format,
                 unit_from_entity |-> unit_from_entity])

\* `x or default`
OrDefault(x, default) == IF x \in {"None", ""} THEN default ELSE x

\* Variant of the accumulator initialisation that keeps what an earlier call left.
FreshAccumulator_keep(leftover) == leftover

\* stats = {}
FreshAccumulator(leftover) == <<>>

\* Variant of the end-of-loop test that stops one row early.
LoopDone_skip_last(k, frame) == k >= Len(frame.rows) - 1

\* df.iterrows() is exhausted after k iterations
LoopDone(k, frame) == k = Len(frame.rows)

\* Variant of the aggregation check that accepts a table with both columns.
aggregation_error_neither_only(has_mean, has_sum) ==
    IF ~has_mean /\ ~has_sum THEN handle_error("AmbiguousAggregation") ELSE Ok(TRUE)

\* exactly one of the columns 'mean' and 'sum'
aggregation_error(has_mean, has_sum) ==
    IF has_mean /\ has_sum THEN handle_error("AmbiguousAggregation")
    ELSE IF ~has_mean /\ ~has_sum THEN handle_error("AmbiguousAggregation")
    ELSE Ok(TRUE)

Metadata(has_mean, has_sum, source, statistic_id, unit) ==
    [has_mean |-> has_mean, has_sum |-> has_sum, source |-> source,
     statistic_id |-> statistic_id, name |-> "None", unit_of_measurement |-> unit]

\* stats[statistic_id] = (metadata, []); `origin` records, per point, the row
\* and the column that produced it (history, not part of the Output).
NewSeries(s, statistic_id, metadata) ==
    (statistic_id :> [meta |-> metadata, points |-> <<>>, origin |-> <<>>]) @@ s

\* stats[statistic_id][1].append(new_stat)
AppendPoint(s, statistic_id, new_stat, from) ==
    [s EXCEPT ![statistic_id] = [@ EXCEPT !.points = Append(@, new_stat),
                                          !.origin = Append(@, from)]]

\* Arguments of the call of handle_dataframe_bdf
stat_id_consumption == Get(call_data, ATTR_STAT_ID_CONSUMPTION, DEFAULT_STAT_ID_CONSUMPTION)
stat_id_supply == Get(call_data, ATTR_STAT_ID_SUPPLY, DEFAULT_STAT_ID_SUPPLY)
unit_consumption == Get(call_data, ATTR_UNIT_CONSUMPTION, "")
unit_supply == Get(call_data, ATTR_UNIT_SUPPLY, "")

\* The list the first loop of handle_dataframe_bdf iterates over
BdfSeries == << <<stat_id_consumption, unit_consumption>>, <<stat_id_supply, unit_supply>> >>

\* An exception inside the try block is swallowed and the fallback runs.
ExceptClause(kind) ==
    /\ caught' = kind
    /\ pc' = "except"

\* An exception outside the try block reaches the caller.
Propagate(kind) ==
    /\ outcome' = Raised(kind)
    /\ pc' = "done"

\* Line 44-48: handle_arguments and the defaults
HandleArguments ==
    /\ pc = "handle_arguments"
    /\ trace' = Append(trace, "handle_arguments")
    /\ LET r == handle_arguments(file_exists, call_data)
       IN  IF r.ok
           THEN /\ opts' = [r.val EXCEPT !.delimiter = OrDefault(@, ";"),
                                         !.decimal = OrDefault(@, ",")]
                /\ pc' = "read_csv_bdf"
                /\ UNCHANGED outcome
           ELSE /\ Propagate(r.err)
                /\ UNCHANGED opts
    /\ UNCHANGED <<inputs, df, stats, i, caught, run, first_outcome>>

\* Line 52-63: the specialized read
ReadCsvBdf ==
    /\ pc = "read_csv_bdf"
    /\ trace' = Append(trace, "read_csv_bdf")
    /\ LET r == read_csv_usecols(opts.delimiter)
       IN  IF r.ok
           THEN /\ df' = r.val
                /\ pc' = "handle_dataframe_bdf"
                /\ UNCHANGED caught
           ELSE /\ ExceptClause(r.err)
                /\ UNCHANGED df
    /\ UNCHANGED <<inputs, opts, stats, i, outcome, run, first_outcome>>

\* Line 197-202: entry of handle_dataframe_bdf
BdfEnter ==
    /\ pc = "handle_dataframe_bdf"
    /\ trace' = Append(trace, "handle_dataframe_bdf")
    /\ IF {"start", "consumption", "supply"} \subseteq df.columns
       THEN /\ stats' = FreshAccumulator(stats)
            /\ i' = 0
            /\ pc' = "bdf_series"
            /\ UNCHANGED caught
       ELSE /\ ExceptClause(handle_error("MissingColumns").err)
            /\ UNCHANGED <<stats, i>>
    /\ UNCHANGED <<inputs, opts, df, outcome, run, first_outcome>>

\* Line 205-220: one iteration of the loop that creates the two series
BdfCreateSeries ==
    /\ pc = "bdf_series"
    /\ i < Len(BdfSeries)
    /\ LET stat_id == BdfSeries[i + 1][1]
           unit_hint == BdfSeries[i + 1][2]
           source == get_source(stat_id)
           unit == add_unit_to_dataframe(source, opts.unit_from_entity, unit_hint, stat_id)
       IN  IF unit.ok
           THEN /\ stats' = NewSeries(stats, stat_id,
                                      Metadata(FALSE, TRUE, source, stat_id, unit.val))
                /\ i' = IF i + 1 = Len(BdfSeries) THEN 0 ELSE i + 1
                /\ pc' = IF i + 1 = Len(BdfSeries) THEN "bdf_rows" ELSE "bdf_series"
                /\ UNCHANGED caught
           ELSE /\ ExceptClause(unit.err)
                /\ UNCHANGED <<stats, i>>
    /\ UNCHANGED <<inputs, opts, df, outcome, trace, run, first_outcome>>

\* Line 223-232: one iteration of the loop over the rows
BdfRow ==
    /\ pc = "bdf_rows"
    /\ ~LoopDone(i, df)
    /\ LET row == df.rows[i + 1]
           cons_row == ("start" :> row["start"]) @@ ("sum" :> row["consumption"])
           cons_stat == get_sum_stat(cons_row, opts.timezone_identifier, opts.datetime_format)
           supp_row == ("start" :> row["start"]) @@ ("sum" :> row["supply"])
           supp_stat == get_sum_stat(supp_row, opts.timezone_identifier, opts.datetime_format)
       IN  IF ~cons_stat.ok
           THEN /\ ExceptClause(cons_stat.err)
                /\ UNCHANGED <<stats, i>>
           ELSE IF ~supp_stat.ok
           THEN /\ ExceptClause(supp_stat.err)
                /\ stats' = AppendPoint(stats, stat_id_consumption, cons_stat.val,
                                        [row |-> i + 1, col |-> "consumption"])
                /\ UNCHANGED i
           ELSE /\ stats' = AppendPoint(
                                AppendPoint(stats, stat_id_consumption, cons_stat.val,
                                            [row |-> i + 1, col |-> "consumption"]),
                                stat_id_supply, supp_stat.val,
                                [row |-> i + 1, col |-> "supply"])
                /\ i' = i + 1
                /\ UNCHANGED <<pc, caught>>
    /\ UNCHANGED <<inputs, opts, df, outcome, trace, run, first_outcome>>

\* Line 234 and 75: return stats, unit_from_entity
BdfReturn ==
    /\ pc = "bdf_rows"
    /\ LoopDone(i, df)
    /\ outcome' = Returned(stats, opts.unit_from_entity)
    /\ pc' = "done"
    /\ UNCHANGED <<inputs, opts, df, stats, i, caught, trace, run, first_outcome>>

\* Line 76-80: the except clause, then the generic read
Fallback ==
    /\ pc = "except"
    /\ trace' = Append(trace, "read_csv")
    /\ df' = read_csv(opts.delimiter)
    /\ pc' = "handle_dataframe"
    /\ UNCHANGED <<inputs, opts, stats, i, outcome, caught, run, first_outcome>>

\* Line 137-156: entry of handle_dataframe
GenericEnter ==
    /\ pc = "handle_dataframe"
    /\ trace' = Append(trace, "handle_dataframe")
    /\ LET valid == are_columns_valid(df, opts.unit_from_entity)
           has_mean == "mean" \in df.columns
           has_sum == "sum" \in df.columns
           agg == aggregation_error(has_mean, has_sum)
       IN  IF ~valid.ok
           THEN /\ Propagate(valid.err)
                /\ UNCHANGED <<stats, i>>
           ELSE IF ~agg.ok
           THEN /\ Propagate(agg.err)
                /\ UNCHANGED <<stats, i>>
           ELSE /\ stats' = FreshAccumulator(stats)
                /\ i' = 0
                /\ pc' = "generic_rows"
                /\ UNCHANGED outcome
    /\ UNCHANGED <<inputs, opts, df, caught, run, first_outcome>>

\* Line 158-179: one iteration of the loop over the rows
GenericRow ==
    /\ pc = "generic_rows"
    /\ ~LoopDone(i, df)
    /\ LET row == df.rows[i + 1]
           has_mean == "mean" \in df.columns
           has_sum == "sum" \in df.columns
           statistic_id == row["statistic_id"]
           source == get_source(statistic_id)
           unit == add_unit_to_dataframe(source, opts.unit_from_entity,
                                         Get(row, "unit", ""), statistic_id)
           new_stat == IF has_mean
                       THEN get_mean_stat(row, opts.timezone_identifier, opts.datetime_format)
                       ELSE get_sum_stat(row, opts.timezone_identifier, opts.datetime_format)
           with_series == IF statistic_id \notin DOMAIN stats
                          THEN NewSeries(stats, statistic_id,
                                         Metadata(has_mean, has_sum, source, statistic_id,
                                                  unit.val))
                          ELSE stats
       IN  IF statistic_id \notin DOMAIN stats /\ ~unit.ok
           THEN /\ Propagate(unit.err)
                /\ UNCHANGED <<stats, i>>
           ELSE IF ~new_stat.ok
           THEN /\ Propagate(new_stat.err)
                /\ stats' = with_series
                /\ UNCHANGED i
           ELSE /\ stats' = AppendPoint(with_series, statistic_id, new_stat.val,
                                        [row |-> i + 1, col |-> "generic"])
                /\ i' = i + 1
                /\ UNCHANGED <<pc, outcome>>
    /\ UNCHANGED <<inputs, opts, df, caught, trace, run, first_outcome>>

\* Line 180 and 82: return stats, unit_from_entity
GenericReturn ==
    /\ pc = "generic_rows"
    /\ LoopDone(i, df)
    /\ outcome' = Returned(stats, opts.unit_from_entity)
    /\ pc' = "done"
    /\ UNCHANGED <<inputs, opts, df, stats, i, caught, trace, run, first_outcome>>

\* The caller invokes prepare_data_to_import again on the same file and options.
\* The locals of the finished call (opts, df, stats, i) are garbage for the new call.
SecondInvocation ==
    /\ pc = "done"
    /\ run = "first"
    /\ run' = "second"
    /\ first_outcome' = outcome
    /\ outcome' = NoOutcome
    /\ caught' = "none"
    /\ trace' = <<>>
    /\ pc' = "handle_arguments"
    /\ UNCHANGED <<inputs, opts, df, stats, i>>

----------------------------------------------------------------------------
(* Specifications *)

Init ==
    /\ \/ /\ file_exists = TRUE
          /\ \E cols \in Layouts :
                /\ file_columns = cols
                /\ file_rows \in SeqsUpTo(RowsOver(cols), MaxRows)
       \/ /\ file_exists = FALSE
          /\ file_columns = {}
          /\ file_rows = <<>>
    /\ call_data \in DictsOver(RequiredKeys \cup OptionalKeys)
    /\ registry \in Registries
    /\ pc = "handle_arguments"
    /\ opts = NoOpts
    /\ df = NoFrame
    /\ stats = <<>>
    /\ i = 0
    /\ outcome = NoOutcome
    /\ caught = "none"
    /\ trace = <<>>
    /\ run = "first"
    /\ first_outcome = NoOutcome

Next ==
    \/ HandleArguments
    \/ ReadCsvBdf
    \/ BdfEnter
    \/ BdfCreateSeries
    \/ BdfRow
    \/ BdfReturn
    \/ Fallback
    \/ GenericEnter
    \/ GenericRow
    \/ GenericReturn

Spec == Init /\ [][Next]_vars

NextTwice == Next \/ SecondInvocation

SpecTwice == Init /\ [][NextTwice]_vars

----------------------------------------------------------------------------
(* Vocabulary of the properties *)

Entered(region) == \E k \in DOMAIN trace : trace[k] = region

Loaded == Entered("read_csv_bdf") \/ Entered("read_csv")

\* The pipeline whose accumulator `stats` currently is.
InBdf == pc \in {"bdf_series", "bdf_rows"}
InGeneric == pc = "generic_rows"

\* The Output was produced by the specialized / the generic pipeline.
ReturnedByBdf == outcome.kind = "returned" /\ ~Entered("handle_dataframe")
ReturnedByGeneric == outcome.kind = "returned" /\ Entered("handle_dataframe")

IsPrefix(s, t) == Len(s) <= Len(t) /\ \A k \in 1..Len(s) : s[k] = t[k]

\* Number of points of accumulator s that row r produced.
RECURSIVE PointsOfRow(_, _, _)
PointsOfRow(s, ids, r) ==
    IF ids = {} THEN 0
    ELSE LET id == CHOOSE x \in ids : TRUE
         IN  Cardinality({k \in DOMAIN s[id].origin : s[id].origin[k].row = r})
             + PointsOfRow(s, ids \ {id}, r)

\* The point the code builds from row r of the file for column `col`.
ExpectedPoint(r, col) ==
    LET row == file_rows[r]
        tz == opts.timezone_identifier
        fmt == opts.datetime_format
    IN  IF col = "consumption"
        THEN get_sum_stat(("start" :> row[CSV_COL_DATETIME])
                              @@ ("sum" :> row[CSV_COL_CONSUMPTION]), tz, fmt).val
        ELSE IF col = "supply"
        THEN get_sum_stat(("start" :> row[CSV_COL_DATETIME])
                              @@ ("sum" :> row[CSV_COL_SUPPLY]), tz, fmt).val
        ELSE IF "mean" \in file_columns
        THEN get_mean_stat(row, tz, fmt).val
        ELSE get_sum_stat(row, tz, fmt).val

\* Every row of the file contributed `per_row` points to s, all from `cols`,
\* each point being the one built from its row.
Complete(s, per_row, cols) ==
    /\ \A r \in 1..Len(file_rows) : PointsOfRow(s, DOMAIN s, r) = per_row
    /\ \A id \in DOMAIN s :
          /\ Len(s[id].points) = Len(s[id].origin)
          /\ \A k \in DOMAIN s[id].origin :
                /\ s[id].origin[k].row \in 1..Len(file_rows)
                /\ s[id].origin[k].col \in cols
                /\ s[id].points[k] = ExpectedPoint(s[id].origin[k].row, s[id].origin[k].col)

----------------------------------------------------------------------------
(* Claims *)

\* C1: the except clause recovers only SchemaMismatch; any other failure raised
\* while the specialized pipeline runs aborts the invocation: the generic
\* pipeline is not started and that failure is what the caller receives.
C1_OnlySchemaMismatchRecovered ==
    /\ caught \in {"none", "SchemaMismatch"}
    /\ Entered("read_csv") => caught = "SchemaMismatch"

\* C2: the specialized and the generic pipeline never both execute in one
\* invocation, and an Output of the specialized pipeline is returned as is
\* without the generic pipeline being entered.
C2_PipelinesExclusive ==
    /\ ~(Entered("handle_dataframe_bdf") /\ Entered("handle_dataframe"))
    /\ (outcome.kind = "returned" /\ caught = "none")
          => /\ ~Entered("handle_dataframe")
             /\ outcome.stats = stats

\* C3: a file with the three specialized headers yields an Output of exactly
\* two series, the consumption and the supply identifier, whatever the options.
C3_TwoSeries ==
    (BdfColumns \subseteq file_columns /\ outcome.kind = "returned")
        => /\ DOMAIN outcome.stats = {stat_id_consumption, stat_id_supply}
           /\ Cardinality(DOMAIN outcome.stats) = 2

\* C4: an invocation ends with a complete Output (every row contributed one
\* point in the generic layout, two in the specialized layout, and nothing
\* of an abandoned specialized attempt is in a generic Output) or with a
\* single failure and no Output.
C4_CompleteOrFailure ==
    /\ pc = "done" => outcome.kind \in {"returned", "raised"}
    /\ outcome.kind = "raised" => outcome.stats = <<>> /\ outcome.error # "none"
    /\ ReturnedByBdf => Complete(outcome.stats, 2, {"consumption", "supply"})
    /\ ReturnedByGeneric => Complete(outcome.stats, 1, {"generic"})

\* C4 witness: the specialized attempt accumulated the points of row 1, was
\* abandoned on row 2, and the generic pipeline returned an Output of two rows.
C4_Witness ==
    /\ ReturnedByGeneric
    /\ caught = "MalformedNumber"
    /\ Len(file_rows) = 2
    /\ file_rows[1][CSV_COL_CONSUMPTION] = "5"
    /\ TextFormat(file_rows[1][CSV_COL_DATETIME]) = opts.datetime_format

\* C5: with both or neither of 'mean' and 'sum' the generic pipeline fails
\* before accumulating; otherwise every series has exactly one of has_mean,
\* has_sum and all series the same one, during accumulation and in the Output.
OneKind(s) ==
    /\ \A id \in DOMAIN s : s[id].meta.has_mean # s[id].meta.has_sum
    /\ \A a, b \in DOMAIN s : s[a].meta.has_mean = s[b].meta.has_mean

C5_SingleAggregationKind ==
    /\ (Entered("handle_dataframe") /\ ("mean" \in df.columns) = ("sum" \in df.columns))
          => /\ pc = "done"
             /\ outcome.kind = "raised"
             /\ outcome.error \in {"AmbiguousAggregation", "InvalidColumns"}
             /\ are_columns_valid(df, opts.unit_from_entity).ok
                   => outcome.error = "AmbiguousAggregation"
    /\ InGeneric => OneKind(stats)
    /\ ReturnedByGeneric => OneKind(outcome.stats)

\* C5 witness: two series are being accumulated in the generic layout.
C5_Witness ==
    /\ InGeneric
    /\ Cardinality(DOMAIN stats) = 2
    /\ i = 2

\* C6: within each series, a point precedes another exactly when its row
\* precedes the other's row in the file.
RowOrder(s) ==
    \A id \in DOMAIN s : \A a, b \in DOMAIN s[id].origin :
        (a < b) <=> (s[id].origin[a].row < s[id].origin[b].row)

C6_PointOrderIsRowOrder ==
    /\ (InBdf \/ InGeneric) => RowOrder(stats)
    /\ outcome.kind = "returned" => RowOrder(outcome.stats)

\* C7: handle_arguments checks the path, then the timezone; either failure
\* aborts before the file is read, and a missing path wins over a bad timezone.
C7_ArgumentsBeforeParsing ==
    /\ (pc # "handle_arguments" /\ ~file_exists)
          => pc = "done" /\ outcome = Raised("FileNotFound") /\ ~Loaded
    /\ (pc # "handle_arguments" /\ file_exists
            /\ Get(call_data, ATTR_TIMEZONE_IDENTIFIER, "None") \notin ValidTimezones)
          => pc = "done" /\ outcome = Raised("InvalidTimezone") /\ ~Loaded
    /\ Loaded => (trace[1] = "handle_arguments" /\ opts # NoOpts)

\* C7 witness: the path is missing and the timezone invalid; FileNotFound is reported.
C7_Witness ==
    /\ ~file_exists
    /\ Get(call_data, ATTR_TIMEZONE_IDENTIFIER, "None") \notin ValidTimezones
    /\ outcome = Raised("FileNotFound")

\* C8: once a key has an entry in the accumulator, no later step of the
\* pipeline changes its metadata or resets its points.
C8_MetadataImmutable ==
    [][(InBdf \/ InGeneric) =>
          \A id \in DOMAIN stats :
              /\ id \in DOMAIN stats'
              /\ stats'[id].meta = stats[id].meta
              /\ IsPrefix(stats[id].points, stats'[id].points)]_vars

\* C9: a second invocation on the same file, options and registry ends with
\* the outcome of the first.
C9_Deterministic ==
    (run = "second" /\ pc = "done") => outcome = first_outcome

\* C9 witness: the second invocation returned an Output built from two rows
\* after its specialized attempt was abandoned.
C9_Witness ==
    /\ run = "second"
    /\ pc = "done"
    /\ outcome.kind = "returned"
    /\ caught # "none"
    /\ Len(file_rows) = 2

\* C10: after k rows of the specialized layout the consumption and the supply
\* series hold k points each, the j-th of each built from row j, with equal
\* timestamps; both series are SUM.
C10_TwoPointsPerRow ==
    pc = "bdf_rows" =>
        LET c == stats[stat_id_consumption]
            s == stats[stat_id_supply]
        IN  /\ Len(c.points) = i
            /\ Len(s.points) = i
            /\ \A j \in 1..i :
                  /\ c.points[j] = ExpectedPoint(j, "consumption")
                  /\ s.points[j] = ExpectedPoint(j, "supply")
                  /\ c.points[j].start = s.points[j].start
            /\ c.meta.has_sum /\ ~c.meta.has_mean
            /\ s.meta.has_sum /\ ~s.meta.has_mean

====
